---- MODULE Spec2Model ----
(***************************************************************************)
(* GitLab MCP code-review server (src/server.py): the lifespan that owns   *)
(* the GitLab client, the path exclusion filter, and the tool operations   *)
(* with the upstream calls each one makes.                                 *)
(*                                                                         *)
(* Strings whose characters matter (paths, exclusion patterns) are         *)
(* sequences of one-character strings; other strings are TLA+ strings.     *)
(***************************************************************************)
EXTENDS Integers, Sequences, FiniteSets, TLC

VARIABLES
    environ,    \* os.environ after load_dotenv(): a function from names to strings
    config,     \* the module-level config mapping read from config.toml
    phase,      \* "starting" | "running" | "failed" | "closed": position of gitlab_lifespan
    gl,         \* the lifespan context (the gitlab.Gitlab client), NoClient before it exists
    startup_error, \* the exception gitlab_lifespan raised, "none" if none
    server,     \* the upstream GitLab state of the one project / merge request
    last,       \* the most recent tool invocation: what it called, saw and returned
    probe       \* the most recent direct application of is_path_excluded

vars == <<environ, config, phase, gl, startup_error, server, last, probe>>

(***************************** bounds **************************************)
MaxPathLen == 3       \* longest file path, in characters
MaxPatLen == 2        \* longest exclusion pattern, in characters
MaxPatterns == 2      \* most exclusion patterns in config.toml
MaxChanges == 2       \* most change entries of a merge request
MaxNotes == 2         \* most notes the upstream holds (the note id counter stops there)

PathChars == {"a", "b", "/"}
\* fnmatch gives "*", "?" and "[" a meaning; patterns here are drawn without "[".
PatChars == {"a", "/", "*", "?"}

Strings(chars, n) == UNION {[1..k -> chars] : k \in 0..n}
SeqsUpTo(S, n) == UNION {[1..k -> S] : k \in 0..n}

Paths == Strings(PathChars, MaxPathLen)
Patterns == Strings(PatChars, MaxPatLen)

\* exclusion patterns of a sample config.toml: two directory rules and three globs
SamplePatterns ==
    {<<"a", "/">>, <<"/">>, <<"*", "a">>, <<"b">>, <<"?", "/", "?">>}
PatternLists == SeqsUpTo(SamplePatterns, MaxPatterns)

\* the pattern lists is_path_excluded is applied to: every one-pattern list,
\* and every list of sample patterns
ProbeLists == {<<p>> : p \in Patterns} \cup PatternLists

(************************ str methods and fnmatch **************************)
\* str.startswith
startswith(s, prefix) ==
    /\ Len(prefix) <= Len(s)
    /\ SubSeq(s, 1, Len(prefix)) = prefix

\* str.endswith
endswith(s, suffix) ==
    /\ Len(suffix) <= Len(s)
    /\ SubSeq(s, Len(s) - Len(suffix) + 1, Len(s)) = suffix

\* the `in` operator of str: sub occurs in s at some offset
RECURSIVE str_contains(_, _)
str_contains(s, sub) ==
    IF Len(sub) > Len(s) THEN FALSE
    ELSE IF startswith(s, sub) THEN TRUE
    ELSE str_contains(Tail(s), sub)

\* fnmatch.fnmatch on POSIX (normcase is the identity there): the whole name
\* must match the pattern; "*" matches any run of characters, "/" included,
\* "?" any one character, any other character itself.
RECURSIVE fnmatch(_, _)
fnmatch(name, pat) ==
    IF pat = <<>> THEN name = <<>>
    ELSE IF Head(pat) = "*"
        THEN \E k \in 0..Len(name) : fnmatch(SubSeq(name, k + 1, Len(name)), Tail(pat))
    ELSE IF Head(pat) = "?"
        THEN name # <<>> /\ fnmatch(Tail(name), Tail(pat))
    ELSE name # <<>> /\ Head(name) = Head(pat) /\ fnmatch(Tail(name), Tail(pat))

(************************* is_path_excluded ********************************)
\* mutant: a directory pattern that does not match ends the loop with False
RECURSIVE is_path_excluded_DirStops(_, _)
is_path_excluded_DirStops(file_path, patterns) ==
    IF patterns = <<>> THEN FALSE
    ELSE LET pattern == Head(patterns) IN
        IF endswith(pattern, <<"/">>)
        THEN startswith(file_path, pattern) \/ str_contains(file_path, <<"/">> \o pattern)
        ELSE IF fnmatch(file_path, pattern) THEN TRUE
        ELSE is_path_excluded_DirStops(file_path, Tail(patterns))

\* mutant: the nested-directory test forgets the leading separator
RECURSIVE is_path_excluded_NoSep(_, _)
is_path_excluded_NoSep(file_path, patterns) ==
    IF patterns = <<>> THEN FALSE
    ELSE LET pattern == Head(patterns) IN
        IF endswith(pattern, <<"/">>)
        THEN IF startswith(file_path, pattern) \/ str_contains(file_path, pattern)
             THEN TRUE
             ELSE is_path_excluded_NoSep(file_path, Tail(patterns))
        ELSE IF fnmatch(file_path, pattern) THEN TRUE
        ELSE is_path_excluded_NoSep(file_path, Tail(patterns))

\* for pattern in patterns: the first pattern that matches returns True
RECURSIVE is_path_excluded(_, _)
is_path_excluded(file_path, patterns) ==
    IF patterns = <<>> THEN FALSE
    ELSE LET pattern == Head(patterns) IN
        IF endswith(pattern, <<"/">>)
        THEN IF startswith(file_path, pattern)
                \/ str_contains(file_path, <<"/">> \o pattern)
             THEN TRUE
             ELSE is_path_excluded(file_path, Tail(patterns))
        ELSE IF fnmatch(file_path, pattern) THEN TRUE
        ELSE is_path_excluded(file_path, Tail(patterns))

(****************************** values *************************************)
EmptyDict == [k \in {} |-> 0]      \* the Python dict {}
NoValue == [none |-> TRUE]         \* nothing was returned
NoError == [type |-> "none"]       \* nothing was raised
NoClient == [built |-> FALSE]      \* no gitlab.Gitlab object exists

\* os.getenv(key, default)
getenv(key, default) ==
    IF key \in DOMAIN environ THEN environ[key] ELSE default

\* dict.get(key, default)
dict_get(d, key, default) ==
    IF key \in DOMAIN d THEN d[key] ELSE default

Timeout == 120

(************************** gitlab_lifespan ********************************)
\* mutant: the client is built whatever the token is
gitlab_lifespan_NoCheck ==
    /\ phase = "starting"
    /\ LET host == getenv("GITLAB_HOST", "gitlab.com")
           token == getenv("GITLAB_TOKEN", "")
       IN /\ gl' = [built |-> TRUE, url |-> <<"https://", host>>,
                    private_token |-> token, timeout |-> Timeout]
          /\ phase' = "running"
          /\ UNCHANGED startup_error
    /\ UNCHANGED <<environ, config, server, last, probe>>

\* entering the lifespan: read host and token, refuse an empty token with
\* ValueError, otherwise build the client and yield it to the server
gitlab_lifespan ==
    /\ phase = "starting"
    /\ LET host == getenv("GITLAB_HOST", "gitlab.com")
           token == getenv("GITLAB_TOKEN", "")
       IN IF token = ""
          THEN /\ startup_error' = "ValueError"
               /\ phase' = "failed"
               /\ UNCHANGED gl
          ELSE /\ gl' = [built |-> TRUE, url |-> <<"https://", host>>,
                         private_token |-> token, timeout |-> Timeout]
               /\ phase' = "running"
               /\ UNCHANGED startup_error
    /\ UNCHANGED <<environ, config, server, last, probe>>

\* leaving the lifespan (the finally block): the session is closed
gitlab_lifespan_close ==
    /\ phase = "running"
    /\ phase' = "closed"
    /\ UNCHANGED <<environ, config, gl, startup_error, server, last, probe>>

(*************************** the upstream **********************************)
\* The upstream holds one project with one merge request:
\*   approved, approvals_required   its approval state
\*   notes                          its plain notes, oldest first
\*   discussions                    its discussions, each [id, resolved, notes]
\*                                  with notes in reply order
\*   changes                        its change entries, as mr.changes() lists them
\*   next_id                        the id the next created note gets
ProjectId == "42"
MrIid == "7"

\* what the upstream answers for the merge request (mr.asdict() after a get)
MRData(srv) ==
    [iid |-> MrIid, project_id |-> ProjectId, state |-> "opened",
     approved |-> srv.approved, approvals_required |-> srv.approvals_required]

\* upstream calls fail when the upstream says so: fail = 0 lets every call of
\* the operation succeed, fail = i makes its i-th call raise.  The log holds
\* the calls the operation got to make.
CallsMade(names, fail) ==
    [i \in 1..(IF fail = 0 THEN Len(names) ELSE fail) |->
        [call |-> names[i], ok |-> i # fail]]

UpstreamError(names, fail) == [type |-> "GitlabError", call |-> names[fail]]

\* a tool is callable while the lifespan is yielded; it takes the client from
\* ctx.request_context.lifespan_context
Callable == phase = "running"

Returned(op, args, calls, value, seen) ==
    last' = [op |-> op, args |-> args, gl |-> gl, calls |-> calls,
             outcome |-> "returned", value |-> value, error |-> NoError,
             seen |-> seen]

Raised(op, args, calls, error, seen) ==
    last' = [op |-> op, args |-> args, gl |-> gl, calls |-> calls,
             outcome |-> "raised", value |-> NoValue, error |-> error,
             seen |-> seen]

Session == <<environ, config, phase, gl, startup_error, probe>>

(************************ fetch_merge_request ******************************)
\* the six fields fetch_merge_request keeps of an upstream change entry
slim_change(change) ==
    [new_path |-> change.new_path, old_path |-> change.old_path,
     new_file |-> change.new_file, renamed_file |-> change.renamed_file,
     deleted_file |-> change.deleted_file, diff |-> change.diff]

\* mutant: the exclusion test reads the old path
RECURSIVE filter_changes_ByOldPath(_, _)
filter_changes_ByOldPath(all_changes, exclude_patterns) ==
    IF all_changes = <<>> THEN <<>>
    ELSE LET change == Head(all_changes)
             rest == filter_changes_ByOldPath(Tail(all_changes), exclude_patterns)
         IN IF ~is_path_excluded(change.old_path, exclude_patterns)
            THEN <<slim_change(change)>> \o rest
            ELSE rest

\* the loop over all_changes: an entry whose new_path is not excluded is
\* slimmed and appended to filtered_changes_list
RECURSIVE filter_changes(_, _)
filter_changes(all_changes, exclude_patterns) ==
    IF all_changes = <<>> THEN <<>>
    ELSE LET change == Head(all_changes)
             file_path == change.new_path
             rest == filter_changes(Tail(all_changes), exclude_patterns)
         IN IF ~is_path_excluded(file_path, exclude_patterns)
            THEN <<slim_change(change)>> \o rest
            ELSE rest

slim_note(note) ==
    [id |-> note.id, body |-> note.body, author |-> note.author.name]

slim_discussion(d) ==
    [id |-> d.id, notes |-> [i \in 1..Len(d.notes) |-> slim_note(d.notes[i])]]

FetchCalls ==
    <<"projects.get", "mergerequests.get", "mr.changes", "mr.commits", "discussions.list">>

fetch_merge_request(fail) ==
    /\ Callable
    /\ LET calls == CallsMade(FetchCalls, fail)
           args == [project_id |-> ProjectId, merge_request_iid |-> MrIid]
           all_changes == server.changes
           exclude_patterns == dict_get(config, "exclude_patterns", <<>>)
           seen == [all_changes |-> all_changes, exclude_patterns |-> exclude_patterns]
       IN IF fail # 0
          THEN Raised("fetch_merge_request", args, calls,
                      UpstreamError(FetchCalls, fail), seen)
          ELSE Returned("fetch_merge_request", args, calls,
                   [merge_request |-> MRData(server),
                    changes |-> [diff_refs |-> "refs",
                                 changes |-> filter_changes(all_changes, exclude_patterns)],
                    commits |-> <<>>,
                    discussions |-> [i \in 1..Len(server.discussions) |->
                                        slim_discussion(server.discussions[i])]],
                   seen)
    /\ UNCHANGED server
    /\ UNCHANGED Session

(************************** compare_versions *******************************)
CompareCalls == <<"projects.get", "repository_compare">>

CompareResult(from_sha, to_sha) ==
    [commits |-> <<>>, diffs |-> <<>>, compare_same_ref |-> from_sha = to_sha]

\* mutant: the compare call is made outside any try block
compare_versions_NoTry(from_sha, to_sha, fail) ==
    /\ Callable
    /\ LET calls == CallsMade(CompareCalls, fail)
           args == [project_id |-> ProjectId, from_sha |-> from_sha, to_sha |-> to_sha]
       IN IF fail # 0
          THEN Raised("compare_versions", args, calls,
                      UpstreamError(CompareCalls, fail), EmptyDict)
          ELSE Returned("compare_versions", args, calls,
                        CompareResult(from_sha, to_sha), EmptyDict)
    /\ UNCHANGED server
    /\ UNCHANGED Session

\* projects.get is called before the try block; only repository_compare is
\* inside it, and its failure leaves result = {}
compare_versions(from_sha, to_sha, fail) ==
    /\ Callable
    /\ LET calls == CallsMade(CompareCalls, fail)
           args == [project_id |-> ProjectId, from_sha |-> from_sha, to_sha |-> to_sha]
       IN IF fail = 1
          THEN Raised("compare_versions", args, calls,
                      UpstreamError(CompareCalls, fail), EmptyDict)
          ELSE LET result == IF fail = 2 THEN EmptyDict
                             ELSE CompareResult(from_sha, to_sha)
               IN Returned("compare_versions", args, calls, result, EmptyDict)
    /\ UNCHANGED server
    /\ UNCHANGED Session

(********************** notes and discussions ******************************)
NewNote(srv, body) == [id |-> srv.next_id, body |-> body, author |-> [name |-> "bot"]]

DiscussionIds == {server.discussions[i].id : i \in 1..Len(server.discussions)}

DiscussionIndex(srv, discussion_id) ==
    CHOOSE i \in 1..Len(srv.discussions) : srv.discussions[i].id = discussion_id

\* can the upstream take one more note
CanCreate == server.next_id <= MaxNotes

MrCalls == <<"projects.get", "mergerequests.get">>
DiscussionCalls == MrCalls \o <<"discussions.get">>

add_merge_request_comment(body, fail) ==
    /\ Callable
    /\ CanCreate
    /\ LET names == MrCalls \o <<"notes.create">>
           calls == CallsMade(names, fail)
           args == [project_id |-> ProjectId, merge_request_iid |-> MrIid, body |-> body]
           note == NewNote(server, body)
       IN IF fail # 0
          THEN /\ Raised("add_merge_request_comment", args, calls,
                         UpstreamError(names, fail), EmptyDict)
               /\ UNCHANGED server
          ELSE /\ Returned("add_merge_request_comment", args, calls, note, EmptyDict)
               /\ server' = [server EXCEPT !.notes = Append(@, note),
                                           !.next_id = @ + 1]
    /\ UNCHANGED Session

\* mutant: the except branch logs the error and returns an empty dict
add_merge_request_discussion_Swallow(body, position, fail) ==
    /\ Callable
    /\ CanCreate
    /\ LET names == MrCalls \o <<"discussions.create">>
           calls == CallsMade(names, fail)
           args == [project_id |-> ProjectId, merge_request_iid |-> MrIid,
                    body |-> body, position |-> position]
           note == NewNote(server, body)
           discussion == [id |-> <<"d", server.next_id>>, resolved |-> FALSE,
                          notes |-> <<note>>]
       IN IF fail \in {1, 2}
          THEN /\ Raised("add_merge_request_discussion", args, calls,
                         UpstreamError(names, fail), EmptyDict)
               /\ UNCHANGED server
          ELSE IF fail = 3
          THEN /\ Returned("add_merge_request_discussion", args, calls,
                           EmptyDict, EmptyDict)
               /\ UNCHANGED server
          ELSE /\ Returned("add_merge_request_discussion", args, calls,
                           discussion, EmptyDict)
               /\ server' = [server EXCEPT !.discussions = Append(@, discussion),
                                           !.next_id = @ + 1]
    /\ UNCHANGED Session

\* discussions.create is inside a try whose except branch logs the error and
\* raises it again
add_merge_request_discussion(body, position, fail) ==
    /\ Callable
    /\ CanCreate
    /\ LET names == MrCalls \o <<"discussions.create">>
           calls == CallsMade(names, fail)
           args == [project_id |-> ProjectId, merge_request_iid |-> MrIid,
                    body |-> body, position |-> position]
           note == NewNote(server, body)
           discussion == [id |-> <<"d", server.next_id>>, resolved |-> FALSE,
                          notes |-> <<note>>]
       IN IF fail # 0
          THEN /\ Raised("add_merge_request_discussion", args, calls,
                         UpstreamError(names, fail), EmptyDict)
               /\ UNCHANGED server
          ELSE /\ Returned("add_merge_request_discussion", args, calls,
                           discussion, EmptyDict)
               /\ server' = [server EXCEPT !.discussions = Append(@, discussion),
                                           !.next_id = @ + 1]
    /\ UNCHANGED Session

reply_to_merge_request_discussion(discussion_id, body, fail) ==
    /\ Callable
    /\ CanCreate
    /\ discussion_id \in DiscussionIds
    /\ LET names == DiscussionCalls \o <<"notes.create">>
           calls == CallsMade(names, fail)
           args == [project_id |-> ProjectId, merge_request_iid |-> MrIid,
                    discussion_id |-> discussion_id, body |-> body]
           k == DiscussionIndex(server, discussion_id)
           note == NewNote(server, body)
       IN IF fail # 0
          THEN /\ Raised("reply_to_merge_request_discussion", args, calls,
                         UpstreamError(names, fail), EmptyDict)
               /\ UNCHANGED server
          ELSE /\ Returned("reply_to_merge_request_discussion", args, calls,
                           note, EmptyDict)
               /\ server' = [server EXCEPT !.discussions[k].notes = Append(@, note),
                                           !.next_id = @ + 1]
    /\ UNCHANGED Session

resolve_merge_request_discussion(discussion_id, resolved, fail) ==
    /\ Callable
    /\ discussion_id \in DiscussionIds
    /\ LET names == DiscussionCalls \o <<"discussion.save">>
           calls == CallsMade(names, fail)
           args == [project_id |-> ProjectId, merge_request_iid |-> MrIid,
                    discussion_id |-> discussion_id, resolved |-> resolved]
           k == DiscussionIndex(server, discussion_id)
       IN IF fail # 0
          THEN /\ Raised("resolve_merge_request_discussion", args, calls,
                         UpstreamError(names, fail), EmptyDict)
               /\ UNCHANGED server
          ELSE /\ Returned("resolve_merge_request_discussion", args, calls,
                           [server.discussions[k] EXCEPT !.resolved = resolved],
                           EmptyDict)
               /\ server' = [server EXCEPT !.discussions[k].resolved = resolved]
    /\ UNCHANGED Session

(******************* delete_merge_request_discussion ***********************)
\* The object mr.discussions.get returns.  Its attribute `notes` is the notes
\* manager of the discussion: the handlers call discussion.notes.create and
\* discussion.notes.delete on it.  The note dicts the upstream sent are under
\* attributes['notes'], where fetch_merge_request reads them.
discussion_get(srv, discussion_id) ==
    LET d == srv.discussions[DiscussionIndex(srv, discussion_id)]
    IN [id |-> d.id,
        attributes |-> [notes |-> d.notes, resolved |-> d.resolved],
        notes |-> [kind |-> "manager"]]

\* bool(v): a list is true when it is not empty; an object that defines
\* neither __bool__ nor __len__, such as a manager, is always true
Truthy(v) == IF v.kind = "list" THEN v.items # <<>> ELSE TRUE

\* v[0] is defined for a list; on a manager it raises TypeError
Subscriptable(v) == v.kind = "list"

\* the upstream's DELETE of a note: the note goes, and a discussion left
\* without notes goes with it
upstream_delete_note(srv, discussion_id, note_id) ==
    LET k == DiscussionIndex(srv, discussion_id)
        d == srv.discussions[k]
        kept == SelectSeq(d.notes, LAMBDA n : n.id # note_id)
    IN IF kept = <<>>
       THEN [srv EXCEPT !.discussions =
                SelectSeq(@, LAMBDA x : x.id # discussion_id)]
       ELSE [srv EXCEPT !.discussions[k].notes = kept]

delete_merge_request_discussion(discussion_id, fail) ==
    /\ Callable
    /\ discussion_id \in DiscussionIds
    /\ LET names == DiscussionCalls \o <<"notes.delete">>
           args == [project_id |-> ProjectId, merge_request_iid |-> MrIid,
                    discussion_id |-> discussion_id]
           discussion == discussion_get(server, discussion_id)
           seen == [discussion |-> server.discussions[DiscussionIndex(server, discussion_id)]]
           got == CallsMade(DiscussionCalls, 0)
       IN IF fail \in 1..Len(DiscussionCalls)
          THEN /\ Raised("delete_merge_request_discussion", args,
                         CallsMade(names, fail), UpstreamError(names, fail), seen)
               /\ UNCHANGED server
          ELSE IF Truthy(discussion.notes)
          THEN IF ~Subscriptable(discussion.notes)
               THEN /\ Raised("delete_merge_request_discussion", args, got,
                              [type |-> "TypeError", call |-> "discussion.notes[0]"], seen)
                    /\ UNCHANGED server
               ELSE LET first_note_id == discussion.notes.items[1].id
                    IN IF fail # 0
                       THEN /\ Raised("delete_merge_request_discussion", args,
                                      CallsMade(names, fail),
                                      UpstreamError(names, fail), seen)
                            /\ UNCHANGED server
                       ELSE /\ Returned("delete_merge_request_discussion", args,
                                        CallsMade(names, 0),
                                        [status |-> "success",
                                         deleted_note_id |-> first_note_id], seen)
                            /\ server' = upstream_delete_note(server, discussion_id,
                                                              first_note_id)
          ELSE /\ Returned("delete_merge_request_discussion", args, got,
                           [status |-> "failed",
                            message |-> "Discussion has no notes to delete."], seen)
               /\ UNCHANGED server
    /\ UNCHANGED Session

(********************* approve / unapprove *********************************)
\* approvals_required is {} for None and {n} for the number n.  The post on
\* mr.approvals is one more call into the client, which may raise like the
\* others; it does not refresh the local mr object.
approve_merge_request(approvals_required, fail) ==
    /\ Callable
    /\ LET names == MrCalls \o <<"mr.approve">>
                    \o (IF approvals_required # {} THEN <<"approvals.post">> ELSE <<>>)
           args == [project_id |-> ProjectId, merge_request_iid |-> MrIid,
                    approvals_required |-> approvals_required]
           approved == [server EXCEPT !.approved = TRUE]
           \* mr.approve() puts the upstream's answer into the local object
           mr == [MRData(server) EXCEPT !.approved = TRUE]
       IN /\ fail <= Len(names)
          /\ IF fail # 0
             THEN /\ Raised("approve_merge_request", args, CallsMade(names, fail),
                            UpstreamError(names, fail), EmptyDict)
                  /\ server' = IF fail > 3 THEN approved ELSE server
             ELSE /\ Returned("approve_merge_request", args, CallsMade(names, fail),
                              mr, EmptyDict)
                  /\ server' = IF approvals_required # {}
                               THEN [approved EXCEPT !.approvals_required =
                                        CHOOSE n \in approvals_required : TRUE]
                               ELSE approved
    /\ UNCHANGED Session

UnapproveCalls == MrCalls \o <<"mr.unapprove">>

\* mutant: mr.unapprove() is called outside any try block
unapprove_merge_request_NoTry(fail) ==
    /\ Callable
    /\ LET args == [project_id |-> ProjectId, merge_request_iid |-> MrIid]
           calls == CallsMade(UnapproveCalls, fail)
       IN IF fail # 0
          THEN /\ Raised("unapprove_merge_request", args, calls,
                         UpstreamError(UnapproveCalls, fail), EmptyDict)
               /\ UNCHANGED server
          ELSE /\ Returned("unapprove_merge_request", args, calls,
                           [MRData(server) EXCEPT !.approved = FALSE], EmptyDict)
               /\ server' = [server EXCEPT !.approved = FALSE]
    /\ UNCHANGED Session

\* the two gets are outside the try block; a failure of mr.unapprove() is
\* logged and the local object is returned as it was fetched
unapprove_merge_request(fail) ==
    /\ Callable
    /\ LET args == [project_id |-> ProjectId, merge_request_iid |-> MrIid]
           calls == CallsMade(UnapproveCalls, fail)
           mr == MRData(server)
       IN IF fail \in 1..Len(MrCalls)
          THEN /\ Raised("unapprove_merge_request", args, calls,
                         UpstreamError(UnapproveCalls, fail), EmptyDict)
               /\ UNCHANGED server
          ELSE IF fail # 0
          THEN /\ Returned("unapprove_merge_request", args, calls, mr, EmptyDict)
               /\ UNCHANGED server
          ELSE /\ Returned("unapprove_merge_request", args, calls,
                           [mr EXCEPT !.approved = FALSE], EmptyDict)
               /\ server' = [server EXCEPT !.approved = FALSE]
    /\ UNCHANGED Session

(************************* listing operations ******************************)
get_project_merge_requests(state, limit, fail) ==
    /\ Callable
    /\ LET names == <<"projects.get", "mergerequests.list">>
           args == [project_id |-> ProjectId, state |-> state, limit |-> limit]
           mrs == IF state \in {"all", "opened"} /\ limit > 0
                  THEN <<MRData(server)>> ELSE <<>>
       IN IF fail # 0
          THEN Raised("get_project_merge_requests", args, CallsMade(names, fail),
                      UpstreamError(names, fail), EmptyDict)
          ELSE Returned("get_project_merge_requests", args, CallsMade(names, fail),
                        [items |-> mrs], EmptyDict)
    /\ UNCHANGED server
    /\ UNCHANGED Session

search_projects(project_name, fail) ==
    /\ Callable
    /\ LET names == <<"projects.list">>
           args == [project_name |-> project_name]
       IN IF fail # 0
          THEN Raised("search_projects", args, CallsMade(names, fail),
                      UpstreamError(names, fail), EmptyDict)
          ELSE Returned("search_projects", args, CallsMade(names, fail),
                        [items |-> <<[id |-> ProjectId]>>], EmptyDict)
    /\ UNCHANGED server
    /\ UNCHANGED Session

(********************* direct use of the filter ****************************)
apply_is_path_excluded ==
    /\ ~probe.applied
    /\ probe' = [probe EXCEPT !.applied = TRUE,
                              !.result = is_path_excluded(probe.file_path, probe.patterns)]
    /\ UNCHANGED <<environ, config, phase, gl, startup_error, server, last>>

(**************************** initial states *******************************)
SamplePaths == {<<"a", "/", "b">>, <<"a">>, <<"b">>}

\* an upstream change entry; a renamed file has old_path "b"
RawChange(new_path, old_path) ==
    [new_path |-> new_path, old_path |-> old_path, new_file |-> FALSE,
     renamed_file |-> new_path # old_path, deleted_file |-> FALSE,
     diff |-> "@@", a_mode |-> "100644", b_mode |-> "100644"]

RawChanges ==
    {RawChange(p, q) : p \in SamplePaths, q \in {<<"b">>}}
    \cup {RawChange(p, p) : p \in SamplePaths}

ChangeLists == SeqsUpTo(RawChanges, MaxChanges)

Configs == {EmptyDict} \cup {[exclude_patterns |-> ps] : ps \in PatternLists}

Environs == {EmptyDict, [GITLAB_TOKEN |-> ""], [GITLAB_TOKEN |-> "glpat"]}

\* a discussion the upstream already holds, with n notes
OldDiscussion(n) ==
    [id |-> <<"d", 0>>, resolved |-> FALSE,
     notes |-> [i \in 1..n |-> [id |-> i, body |-> "old", author |-> [name |-> "dev"]]]]

Server(changes, discussions, next_id) ==
    [approved |-> FALSE, approvals_required |-> 0, notes |-> <<>>,
     discussions |-> discussions, changes |-> changes, next_id |-> next_id]

NoCall ==
    [op |-> "none", args |-> EmptyDict, gl |-> NoClient, calls |-> <<>>,
     outcome |-> "none", value |-> NoValue, error |-> NoError, seen |-> EmptyDict]

NoProbe == [file_path |-> <<>>, patterns |-> <<>>, applied |-> FALSE, result |-> FALSE]

Starting ==
    /\ phase = "starting"
    /\ gl = NoClient
    /\ startup_error = "none"
    /\ last = NoCall

\* the server process with some environment and a sample config.toml, before its
\* lifespan is entered, and an upstream with or without a discussion
Init ==
    /\ Starting
    /\ environ \in Environs
    /\ config = [exclude_patterns |-> <<<<"a", "/">>, <<"b">>>>]
    /\ server \in {Server(<<RawChange(<<"a", "/", "b">>, <<"a">>), RawChange(<<"a">>, <<"b">>)>>,
                          <<>>, 1)}
                  \cup {Server(<<>>, <<OldDiscussion(n)>>, n + 1) : n \in 0..MaxNotes}
    /\ probe = NoProbe

\* every config.toml and every change list of the merge request
InitFetch ==
    /\ Starting
    /\ environ = [GITLAB_TOKEN |-> "glpat"]
    /\ config \in Configs
    /\ server \in {Server(cs, <<>>, 1) : cs \in ChangeLists}
    /\ probe = NoProbe

\* every path with every pattern list, is_path_excluded not yet applied
InitFilter ==
    /\ Starting
    /\ environ = EmptyDict
    /\ config = EmptyDict
    /\ server = Server(<<>>, <<>>, 1)
    /\ probe \in {[file_path |-> x, patterns |-> ps, applied |-> FALSE, result |-> FALSE] :
                    x \in Paths, ps \in ProbeLists}

(****************************** next state *********************************)
DefaultLimit == 20
Fails(n) == 0..n

Next ==
    \/ gitlab_lifespan
    \/ gitlab_lifespan_close
    \/ \E fail \in Fails(5) : fetch_merge_request(fail)
    \/ \E to_sha \in {"main", "dev"}, fail \in Fails(2) :
            compare_versions("main", to_sha, fail)
    \/ \E fail \in Fails(3) : add_merge_request_comment("text", fail)
    \/ \E fail \in Fails(3) :
            add_merge_request_discussion("text", [new_path |-> <<"a">>, new_line |-> 1], fail)
    \/ \E d \in DiscussionIds, fail \in Fails(4) :
            reply_to_merge_request_discussion(d, "text", fail)
    \/ \E d \in DiscussionIds, resolved \in BOOLEAN, fail \in Fails(4) :
            resolve_merge_request_discussion(d, resolved, fail)
    \/ \E d \in DiscussionIds, fail \in Fails(4) :
            delete_merge_request_discussion(d, fail)
    \/ \E a \in {{}, {0}, {2}}, fail \in Fails(4) :
            approve_merge_request(a, fail)
    \/ \E fail \in Fails(3) : unapprove_merge_request(fail)
    \/ \E state \in {"all", "merged"}, fail \in Fails(2) :
            get_project_merge_requests(state, DefaultLimit, fail)
    \/ \E fail \in Fails(1) : search_projects("review", fail)

NextFetch ==
    \/ gitlab_lifespan
    \/ \E fail \in Fails(5) : fetch_merge_request(fail)

NextFilter == apply_is_path_excluded

Spec == Init /\ [][Next]_vars
SpecFetch == InitFetch /\ [][NextFetch]_vars
SpecFilter == InitFilter /\ [][NextFilter]_vars

(******************************* claims ************************************)
FailedCalls == {i \in 1..Len(last.calls) : ~last.calls[i].ok}
CallNames == {last.calls[i].call : i \in 1..Len(last.calls)}
FailedNames == {last.calls[i].call : i \in FailedCalls}

\* C1: with GITLAB_TOKEN unset or empty the lifespan fails (the ValueError of
\* gitlab_lifespan is the configuration error) with no client built and no
\* tool ever run; every tool that ran, and every running session, holds a
\* client built from a non-empty token.
C1_TokenRequired ==
    /\ (getenv("GITLAB_TOKEN", "") = "" /\ phase # "starting" =>
            /\ phase = "failed"
            /\ startup_error = "ValueError"
            /\ gl = NoClient
            /\ last = NoCall)
    /\ (phase = "failed" => gl = NoClient /\ last = NoCall)
    /\ (phase = "running" => gl.built /\ gl.private_token # "")
    /\ (last.op # "none" => last.gl.built /\ last.gl.private_token # "")

C1_Witness ==
    /\ "GITLAB_TOKEN" \notin DOMAIN environ
    /\ phase = "failed"
    /\ startup_error = "ValueError"

\* C2: the changes fetch_merge_request returns are the upstream entries whose
\* new path is not excluded, in upstream order, with the upstream's new_path
\* and old_path; none of them has a new path that an exclusion pattern matches.
C2_FetchFilters ==
    (last.op = "fetch_merge_request" /\ last.outcome = "returned") =>
        LET ps == dict_get(config, "exclude_patterns", <<>>)
            kept == SelectSeq(server.changes,
                              LAMBDA c : ~is_path_excluded(c.new_path, ps))
            out == last.value.changes.changes
        IN /\ Len(out) = Len(kept)
           /\ \A i \in 1..Len(out) :
                /\ out[i].new_path = kept[i].new_path
                /\ out[i].old_path = kept[i].old_path
                /\ \A j \in 1..Len(ps) : ~is_path_excluded(out[i].new_path, <<ps[j]>>)

C2_Witness ==
    /\ last.op = "fetch_merge_request"
    /\ last.outcome = "returned"
    /\ Len(server.changes) = 2
    /\ Len(last.value.changes.changes) = 1
    /\ last.value.changes.changes[1].new_path = server.changes[2].new_path
    /\ last.value.changes.changes[1].old_path # server.changes[2].new_path
    /\ Len(dict_get(config, "exclude_patterns", <<>>)) = 2

\* C3: for a single pattern p ending in "/", is_path_excluded(x, [p]) is true
\* exactly when x starts with p or "/" followed by p occurs in x; the two
\* vendor/ examples come out true and false.
C3_DirectoryPattern ==
    /\ (probe.applied /\ Len(probe.patterns) = 1) =>
        LET x == probe.file_path
            p == probe.patterns[1]
            sp == <<"/">> \o p
            Starts == /\ Len(p) <= Len(x)
                      /\ \A i \in 1..Len(p) : x[i] = p[i]
            Nested == \E k \in 0..(Len(x) - Len(sp)) :
                          \A i \in 1..Len(sp) : x[k + i] = sp[i]
        IN (Len(p) > 0 /\ p[Len(p)] = "/") => (probe.result <=> (Starts \/ Nested))
    /\ is_path_excluded(
          <<"v", "e", "n", "d", "o", "r", "/", "l", "i", "b", "/", "x", ".", "p", "y">>,
          <<<<"v", "e", "n", "d", "o", "r", "/">>>>)
    /\ ~is_path_excluded(
          <<"s", "r", "c", "/", "v", "e", "n", "d", "o", "r", "_", "u", "t", "i", "l",
            "s", ".", "p", "y">>,
          <<<<"v", "e", "n", "d", "o", "r", "/">>>>)

C3_Witness ==
    /\ probe.applied
    /\ probe.patterns = <<<<"a", "/">>>>
    /\ probe.file_path = <<"/", "a", "/">>
    /\ probe.result

\* C4: is_path_excluded(x, ps) is true exactly when some single pattern of ps
\* excludes x; it is false for the empty list and the same for every
\* reordering of ps.
C4_AnyPattern ==
    probe.applied =>
        LET x == probe.file_path
            ps == probe.patterns
            n == Len(ps)
        IN /\ probe.result <=> (\E i \in 1..n : is_path_excluded(x, <<ps[i]>>))
           /\ (ps = <<>> => ~probe.result)
           /\ \A f \in Permutations(1..n) :
                is_path_excluded(x, [i \in 1..n |-> ps[f[i]]]) = probe.result

C4_Witness ==
    /\ probe.applied
    /\ Len(probe.patterns) = 2
    /\ ~is_path_excluded(probe.file_path, <<probe.patterns[1]>>)
    /\ probe.patterns[1][Len(probe.patterns[1])] = "/"
    /\ probe.result

\* C5 as stated: whenever any upstream call of compare_versions fails, the
\* operation returns an empty result.
C5_Original ==
    (last.op = "compare_versions" /\ FailedCalls # {}) =>
        (last.outcome = "returned" /\ last.value = EmptyDict)

\* C5 amended: a failure of the repository_compare call is not propagated,
\* the operation returns an empty result; a failure of the project lookup
\* that precedes it is propagated.
C5_CompareSoftened ==
    last.op = "compare_versions" =>
        /\ "repository_compare" \in FailedNames =>
                (last.outcome = "returned" /\ last.value = EmptyDict)
        /\ "projects.get" \in FailedNames =>
                (last.outcome = "raised" /\ last.error.call = "projects.get")

C5_Witness ==
    /\ last.op = "compare_versions"
    /\ "repository_compare" \in FailedNames
    /\ last.outcome = "returned"

\* C6: once unapprove_merge_request has called mr.unapprove(), it returns the
\* merge request's current state, whether that call succeeded or failed.
C6_UnapproveSoft ==
    (last.op = "unapprove_merge_request" /\ "mr.unapprove" \in CallNames) =>
        /\ last.outcome = "returned"
        /\ last.value = MRData(server)

C6_Witness ==
    /\ last.op = "unapprove_merge_request"
    /\ "mr.unapprove" \in FailedNames
    /\ last.outcome = "returned"
    /\ last.value.approved

\* C7: an operation other than compare_versions and unapprove_merge_request
\* never returns after one of its upstream calls failed: it raises that
\* call's error.
C7_Propagates ==
    (/\ last.op \notin {"none", "compare_versions", "unapprove_merge_request"}
     /\ FailedCalls # {}) =>
        /\ last.outcome = "raised"
        /\ last.error.type = "GitlabError"
        /\ last.error.call \in FailedNames

C7_Witness ==
    /\ last.op = "add_merge_request_discussion"
    /\ "discussions.create" \in FailedNames
    /\ last.outcome = "raised"

\* C8: delete_merge_request_discussion on a discussion with no notes returns
\* {status: "failed", message: "Discussion has no notes to delete."}, raises
\* nothing, issues no delete call and leaves the discussion as it is.
C8_EmptyDiscussion ==
    (/\ last.op = "delete_merge_request_discussion"
     /\ FailedCalls = {}
     /\ last.seen.discussion.notes = <<>>) =>
        /\ last.outcome = "returned"
        /\ last.value = [status |-> "failed",
                         message |-> "Discussion has no notes to delete."]
        /\ "notes.delete" \notin CallNames
        /\ \E i \in 1..Len(server.discussions) :
                server.discussions[i] = last.seen.discussion

\* C9: delete_merge_request_discussion on a discussion with n >= 1 notes
\* deletes its first note and returns success with that note's id; the
\* discussion is left with notes 2..n in order, and is gone when n = 1.
C9_DeletesFirstNote ==
    (/\ last.op = "delete_merge_request_discussion"
     /\ FailedCalls = {}
     /\ last.seen.discussion.notes # <<>>) =>
        LET d == last.seen.discussion
            left == {i \in 1..Len(server.discussions) : server.discussions[i].id = d.id}
        IN /\ last.outcome = "returned"
           /\ last.value = [status |-> "success", deleted_note_id |-> d.notes[1].id]
           /\ IF Len(d.notes) = 1 THEN left = {}
              ELSE \E i \in left : server.discussions[i].notes = Tail(d.notes)

====
